---- MODULE Spec2Model ----
(***************************************************************************)
(* A model of the happiness-survey ETL helpers:                            *)
(*   utils/years_functions.py        loader, normalizer, enricher, merger  *)
(*   src/database/database_functions.py   persistence layer                *)
(*   src/models/database_models.py   the ORM schema "Model"                *)
(* Three specifications share one set of variables: SpecLoader (the loop   *)
(* of load_datasets), SpecFrames (the dataframe helpers called on the      *)
(* objects a caller holds) and Spec (the database operations).             *)
(***************************************************************************)
EXTENDS Integers, Sequences, FiniteSets, TLC

VARIABLES
    directory,   \* loader: what os.listdir(path) returned, in listing order
    pending,     \* loader: the file names the for-loop has not visited yet
    datasets,    \* loader: the dict being built, in insertion order
    loadpc,      \* loader: "loop", "done" (returned) or "raised" (ValueError)
    heap,        \* frames: the DataFrame objects, by identity (index)
    dicts,       \* frames: the dict objects year -> DataFrame, by identity
    outcome,     \* frames: Null, or how the caller's run ended: the merged
                 \* table, or the exception that was raised
    dbExists,    \* database: the configured database exists on the server
    tables,      \* database: the tables of the database, by name
    engine,      \* database: what the caller got from get_engine()
    dbLast       \* database: the last call: operation, arguments, outcome

loaderVars == <<directory, pending, datasets, loadpc>>
frameVars  == <<heap, dicts, outcome>>
dbVars     == <<dbExists, tables, engine, dbLast>>
vars       == <<directory, pending, datasets, loadpc, heap, dicts, outcome,
                dbExists, tables, engine, dbLast>>

Null == [null |-> TRUE]

(***************************************************************************)
(* Small helpers on sequences.                                             *)
(***************************************************************************)
Range(s) == {s[i] : i \in 1..Len(s)}

IsInjective(s) == \A i, j \in 1..Len(s) : s[i] = s[j] => i = j

RECURSIVE SeqsUpTo(_, _)
SeqsUpTo(S, n) ==
    IF n = 0 THEN {<<>>}
    ELSE LET shorter == SeqsUpTo(S, n - 1)
         IN  shorter \cup {Append(s, x) : s \in {t \in shorter : Len(t) = n - 1}, x \in S}

(***************************************************************************)
(* ---------------------------  Dataset Loader  -------------------------- *)
(* File names are sequences of characters, so that str.endswith,           *)
(* str.split, the [-4:] slice and int() are computed as Python does.       *)
(***************************************************************************)
MaxFiles == 3

YearWidth == 4

Digits == {"0", "1", "2", "3", "4", "5", "6", "7", "8", "9"}

DigitValue(c) ==
    CASE c = "0" -> 0 [] c = "1" -> 1 [] c = "2" -> 2 [] c = "3" -> 3
      [] c = "4" -> 4 [] c = "5" -> 5 [] c = "6" -> 6 [] c = "7" -> 7
      [] c = "8" -> 8 [] c = "9" -> 9

CsvExt == <<".", "c", "s", "v">>

\* filename.endswith('.csv')
EndsWithCsv(name) ==
    /\ Len(name) >= Len(CsvExt)
    /\ SubSeq(name, Len(name) - Len(CsvExt) + 1, Len(name)) = CsvExt

\* filename.split('.')[0]: everything before the first dot
RECURSIVE BeforeFirstDot(_)
BeforeFirstDot(name) ==
    IF name = <<>> \/ Head(name) = "." THEN <<>>
    ELSE <<Head(name)>> \o BeforeFirstDot(Tail(name))

\* s[-4:]: the last four characters, or all of s when it is shorter
LastChars(s, n) == IF Len(s) <= n THEN s ELSE SubSeq(s, Len(s) - n + 1, Len(s))

\* int(s) on a string of decimal digits; any other string raises ValueError
ValueError == -1

RECURSIVE DigitsValue(_)
DigitsValue(s) ==
    IF s = <<>> THEN 0
    ELSE 10 * DigitsValue(SubSeq(s, 1, Len(s) - 1)) + DigitValue(s[Len(s)])

ParseInt(s) ==
    IF s # <<>> /\ \A i \in 1..Len(s) : s[i] \in Digits THEN DigitsValue(s)
    ELSE ValueError

\* int(filename.split('.')[0][-4:])
YearOf(name) == ParseInt(LastChars(BeforeFirstDot(name), YearWidth))

(***************************************************************************)
(* The file names a directory is drawn from: two files of the same year,   *)
(* a bare year, a short stem, other extensions, a dot inside the stem,     *)
(* and a stem without a year.                                              *)
(***************************************************************************)
Y2015 == <<"2", "0", "1", "5">>
Y2016 == <<"2", "0", "1", "6">>

FileNames ==
    { <<"h">> \o Y2015 \o CsvExt,                         \* h2015.csv
      <<"w">> \o Y2015 \o CsvExt,                         \* w2015.csv
      Y2016 \o CsvExt,                                    \* 2016.csv
      <<"h", "_">> \o Y2016 \o CsvExt,                    \* h_2016.csv
      <<"1", "7">> \o CsvExt,                             \* 17.csv
      <<"h">> \o Y2016 \o <<".", "t", "x", "t">>,         \* h2016.txt
      <<"h">> \o Y2015 \o <<".", "C", "S", "V">>,         \* h2015.CSV
      <<"h", ".">> \o Y2015 \o CsvExt,                    \* h.2015.csv
      <<"h">> \o Y2016 \o <<".", "v", "2">> \o CsvExt,    \* h2016.v2.csv
      <<"d", "a", "t", "a">> \o CsvExt }                  \* data.csv

\* pd.read_csv(full_path): the dataset is identified by the file it came from
ReadCsv(name) == [file |-> name]

DictKeys(d) == {d[i].year : i \in 1..Len(d)}

DictGet(d, y) == (CHOOSE i \in 1..Len(d) : d[i].year = y)

\* d[year] = df on an insertion-ordered dict: an existing key keeps its place
DictSetAppend(d, y, df) == Append(d, [year |-> y, df |-> df])

DictSet(d, y, df) ==
    IF y \in DictKeys(d)
    THEN [d EXCEPT ![DictGet(d, y)] = [year |-> y, df |-> df]]
    ELSE Append(d, [year |-> y, df |-> df])

IdleLoader ==
    /\ directory = <<>>
    /\ pending = <<>>
    /\ datasets = <<>>
    /\ loadpc = "idle"

InitLoader ==
    /\ directory \in {s \in SeqsUpTo(FileNames, MaxFiles) : IsInjective(s)}
    /\ pending = directory
    /\ datasets = <<>>
    /\ loadpc = "loop"

\* one iteration of `for filename in os.listdir(path)` on a '.csv' name
LoadFile ==
    /\ loadpc = "loop"
    /\ pending # <<>>
    /\ EndsWithCsv(Head(pending))
    /\ YearOf(Head(pending)) # ValueError
    /\ datasets' = DictSet(datasets, YearOf(Head(pending)), ReadCsv(Head(pending)))
    /\ pending' = Tail(pending)
    /\ UNCHANGED <<directory, loadpc, frameVars, dbVars>>

\* one iteration on a name that does not end in '.csv': nothing happens
SkipFile ==
    /\ loadpc = "loop"
    /\ pending # <<>>
    /\ ~EndsWithCsv(Head(pending))
    /\ pending' = Tail(pending)
    /\ UNCHANGED <<directory, datasets, loadpc, frameVars, dbVars>>

\* int(...) raises ValueError, which load_datasets does not catch
LoadRaise ==
    /\ loadpc = "loop"
    /\ pending # <<>>
    /\ EndsWithCsv(Head(pending))
    /\ YearOf(Head(pending)) = ValueError
    /\ loadpc' = "raised"
    /\ UNCHANGED <<directory, pending, datasets, frameVars, dbVars>>

\* the loop is over: log the count and return the dict
LoadReturn ==
    /\ loadpc = "loop"
    /\ pending = <<>>
    /\ loadpc' = "done"
    /\ UNCHANGED <<directory, pending, datasets, frameVars, dbVars>>

(***************************************************************************)
(* -----------------------  DataFrames and dicts  ------------------------ *)
(* A DataFrame is [cols, rows]: the column labels in order (pandas allows  *)
(* a label to occur twice) and the rows, each a sequence of cells aligned  *)
(* with cols.  A cell is a string, an integer or the missing value NaN.    *)
(* DataFrames and dicts are objects: heap[r] is the DataFrame with         *)
(* identity r, dicts[d].items the insertion-ordered entries                *)
(* [year, df] of dict d, df being a reference into heap.  dicts[d].src     *)
(* records which dict normalize_column_names built d from (0: loaded).     *)
(***************************************************************************)
StrCell(x) == [s |-> x]
IntCell(n) == [i |-> n]
NaN == [nan |-> TRUE]

MaxYears == 2
MaxRows == 2

Positions(cols, name) == {j \in 1..Len(cols) : cols[j] = name}

ColumnSet(f) == Range(f.cols)

\* df[name] = vals, with a new column appended even when the label exists
SetColumnAlwaysAppend(f, name, vals) ==
    [cols |-> Append(f.cols, name),
     rows |-> [r \in 1..Len(f.rows) |-> Append(f.rows[r], vals[r])]]

\* df[name] = vals: overwrite the column(s) labelled name, or append a new one
SetColumn(f, name, vals) ==
    IF Positions(f.cols, name) # {}
    THEN [cols |-> f.cols,
          rows |-> [r \in 1..Len(f.rows) |->
                      [j \in 1..Len(f.cols) |->
                         IF f.cols[j] = name THEN vals[r] ELSE f.rows[r][j]]]]
    ELSE [cols |-> Append(f.cols, name),
          rows |-> [r \in 1..Len(f.rows) |-> Append(f.rows[r], vals[r])]]

(***************************************************************************)
(* Column Normalizer                                                       *)
(***************************************************************************)
column_mapping ==
       "Country" :> "Country"
    @@ "Country or region" :> "Country"
    @@ "Dystopia Residual" :> "Dystopia_Residual"
    @@ "Dystopia.Residual" :> "Dystopia_Residual"
    @@ "Economy (GDP per Capita)" :> "Economy"
    @@ "Economy..GDP.per.Capita." :> "Economy"
    @@ "Family" :> "Social_Support"
    @@ "Freedom" :> "Freedom"
    @@ "Freedom to make life choices" :> "Freedom"
    @@ "GDP per capita" :> "Economy"
    @@ "Generosity" :> "Generosity"
    @@ "Happiness Rank" :> "Happiness_Rank"
    @@ "Happiness Score" :> "Happiness_Score"
    @@ "Happiness.Rank" :> "Happiness_Rank"
    @@ "Happiness.Score" :> "Happiness_Score"
    @@ "Health (Life Expectancy)" :> "Health"
    @@ "Health..Life.Expectancy." :> "Health"
    @@ "Healthy life expectancy" :> "Health"
    @@ "Lower Confidence Interval" :> "Lower_Confidence_Interval"
    @@ "Overall rank" :> "Happiness_Rank"
    @@ "Perceptions of corruption" :> "Trust"
    @@ "Trust (Government Corruption)" :> "Trust"
    @@ "Trust..Government.Corruption." :> "Trust"
    @@ "Region" :> "Region"
    @@ "Score" :> "Happiness_Score"
    @@ "Social support" :> "Social_Support"
    @@ "Standard Error" :> "Standard_Error"
    @@ "Upper Confidence Interval" :> "Upper_Confidence_Interval"
    @@ "Whisker.high" :> "Whisker_High"
    @@ "Whisker.low" :> "Whisker_Low"

\* a rename whose table lacks the entry for 'Score'
RenameLabelWithoutScore(c) ==
    IF c \in DOMAIN column_mapping \ {"Score"} THEN column_mapping[c] ELSE c

\* DataFrame.rename(columns=column_mapping) on one label
RenameLabel(c) == IF c \in DOMAIN column_mapping THEN column_mapping[c] ELSE c

\* df.rename(column_mapping): the index is renamed, the columns are not
RenameFrameIndexOnly(f) == [cols |-> f.cols, rows |-> f.rows]

\* df.rename(columns=column_mapping): a new DataFrame, same rows
RenameFrame(f) ==
    [cols |-> [j \in 1..Len(f.cols) |-> RenameLabel(f.cols[j])], rows |-> f.rows]

\* normalize_column_names(df_dict): a new dict of new DataFrames
normalize_column_names(h, ds, d) ==
    LET items == ds[d].items
        newItems == [k \in 1..Len(items) |->
                       [year |-> items[k].year, df |-> Len(h) + k]]
    IN  [heap  |-> h \o [k \in 1..Len(items) |-> RenameFrame(h[items[k].df])],
         dicts |-> Append(ds, [items |-> newItems, src |-> d]),
         ret   |-> Len(ds) + 1]

(***************************************************************************)
(* Enricher                                                                *)
(***************************************************************************)
ConstantColumn(f, v) == [r \in 1..Len(f.rows) |-> v]

\* the loop `for year, df in df_dict.items(): df['Year'] = year`
RECURSIVE AddYearItems(_, _)
AddYearItems(h, items) ==
    IF items = <<>> THEN h
    ELSE LET it == Head(items)
             f  == h[it.df]
         IN  AddYearItems(
                 [h EXCEPT ![it.df] = SetColumn(f, "Year", ConstantColumn(f, IntCell(it.year)))],
                 Tail(items))

\* add_year_column(df_dict): mutates the DataFrames, returns the same dict
add_year_column(h, ds, d) == [heap |-> AddYearItems(h, ds[d].items), ret |-> d]

country_to_continent ==
       "Switzerland" :> "Europe"
    @@ "Iceland" :> "Europe"
    @@ "Denmark" :> "Europe"
    @@ "Norway" :> "Europe"
    @@ "Canada" :> "North America"
    @@ "Finland" :> "Europe"
    @@ "Netherlands" :> "Europe"
    @@ "Sweden" :> "Europe"
    @@ "New Zealand" :> "Oceania"
    @@ "Australia" :> "Oceania"
    @@ "Israel" :> "Asia"
    @@ "Costa Rica" :> "North America"
    @@ "Austria" :> "Europe"
    @@ "Mexico" :> "North America"
    @@ "United States" :> "North America"
    @@ "Brazil" :> "South America"
    @@ "Luxembourg" :> "Europe"
    @@ "Ireland" :> "Europe"
    @@ "Belgium" :> "Europe"
    @@ "United Arab Emirates" :> "Asia"
    @@ "United Kingdom" :> "Europe"
    @@ "Oman" :> "Asia"
    @@ "Venezuela" :> "South America"
    @@ "Singapore" :> "Asia"
    @@ "Panama" :> "North America"
    @@ "Germany" :> "Europe"
    @@ "Chile" :> "South America"
    @@ "Qatar" :> "Asia"
    @@ "France" :> "Europe"
    @@ "Argentina" :> "South America"
    @@ "Czech Republic" :> "Europe"
    @@ "Uruguay" :> "South America"
    @@ "Colombia" :> "South America"
    @@ "Thailand" :> "Asia"
    @@ "Saudi Arabia" :> "Asia"
    @@ "Spain" :> "Europe"
    @@ "Malta" :> "Europe"
    @@ "Taiwan" :> "Asia"
    @@ "Kuwait" :> "Asia"
    @@ "Suriname" :> "South America"
    @@ "Trinidad and Tobago" :> "North America"
    @@ "El Salvador" :> "North America"
    @@ "Guatemala" :> "North America"
    @@ "Uzbekistan" :> "Asia"
    @@ "Slovakia" :> "Europe"
    @@ "Japan" :> "Asia"
    @@ "South Korea" :> "Asia"
    @@ "Ecuador" :> "South America"
    @@ "Bahrain" :> "Asia"
    @@ "Italy" :> "Europe"
    @@ "Bolivia" :> "South America"
    @@ "Moldova" :> "Europe"
    @@ "Paraguay" :> "South America"
    @@ "Kazakhstan" :> "Asia"
    @@ "Slovenia" :> "Europe"
    @@ "Lithuania" :> "Europe"
    @@ "Nicaragua" :> "North America"
    @@ "Peru" :> "South America"
    @@ "Belarus" :> "Europe"
    @@ "Poland" :> "Europe"
    @@ "Malaysia" :> "Asia"
    @@ "Croatia" :> "Europe"
    @@ "Libya" :> "Africa"
    @@ "Russia" :> "Europe"
    @@ "Jamaica" :> "North America"
    @@ "North Cyprus" :> "Europe"
    @@ "Cyprus" :> "Europe"
    @@ "Algeria" :> "Africa"
    @@ "Kosovo" :> "Europe"
    @@ "Turkmenistan" :> "Asia"
    @@ "Mauritius" :> "Africa"
    @@ "Hong Kong" :> "Asia"
    @@ "Estonia" :> "Europe"
    @@ "Indonesia" :> "Asia"
    @@ "Vietnam" :> "Asia"
    @@ "Turkey" :> "Asia"
    @@ "Kyrgyzstan" :> "Asia"
    @@ "Nigeria" :> "Africa"
    @@ "Bhutan" :> "Asia"
    @@ "Azerbaijan" :> "Asia"
    @@ "Pakistan" :> "Asia"
    @@ "Jordan" :> "Asia"
    @@ "Montenegro" :> "Europe"
    @@ "China" :> "Asia"
    @@ "Zambia" :> "Africa"
    @@ "Romania" :> "Europe"
    @@ "Serbia" :> "Europe"
    @@ "Portugal" :> "Europe"
    @@ "Latvia" :> "Europe"
    @@ "Philippines" :> "Asia"
    @@ "Somaliland region" :> "Africa"
    @@ "Morocco" :> "Africa"
    @@ "Macedonia" :> "Europe"
    @@ "Mozambique" :> "Africa"
    @@ "Albania" :> "Europe"
    @@ "Bosnia and Herzegovina" :> "Europe"
    @@ "Lesotho" :> "Africa"
    @@ "Dominican Republic" :> "North America"
    @@ "Laos" :> "Asia"
    @@ "Mongolia" :> "Asia"
    @@ "Swaziland" :> "Africa"
    @@ "Greece" :> "Europe"
    @@ "Lebanon" :> "Asia"
    @@ "Hungary" :> "Europe"
    @@ "Honduras" :> "North America"
    @@ "Tajikistan" :> "Asia"
    @@ "Tunisia" :> "Africa"
    @@ "Palestinian Territories" :> "Asia"
    @@ "Bangladesh" :> "Asia"
    @@ "Iran" :> "Asia"
    @@ "Ukraine" :> "Europe"
    @@ "Iraq" :> "Asia"
    @@ "South Africa" :> "Africa"
    @@ "Ghana" :> "Africa"
    @@ "Zimbabwe" :> "Africa"
    @@ "Liberia" :> "Africa"
    @@ "India" :> "Asia"
    @@ "Sudan" :> "Africa"
    @@ "Haiti" :> "North America"
    @@ "Congo (Kinshasa)" :> "Africa"
    @@ "Nepal" :> "Asia"
    @@ "Ethiopia" :> "Africa"
    @@ "Sierra Leone" :> "Africa"
    @@ "Mauritania" :> "Africa"
    @@ "Kenya" :> "Africa"
    @@ "Djibouti" :> "Africa"
    @@ "Armenia" :> "Asia"
    @@ "Botswana" :> "Africa"
    @@ "Myanmar" :> "Asia"
    @@ "Georgia" :> "Asia"
    @@ "Malawi" :> "Africa"
    @@ "Sri Lanka" :> "Asia"
    @@ "Cameroon" :> "Africa"
    @@ "Bulgaria" :> "Europe"
    @@ "Egypt" :> "Africa"
    @@ "Yemen" :> "Asia"
    @@ "Angola" :> "Africa"
    @@ "Mali" :> "Africa"
    @@ "Congo (Brazzaville)" :> "Africa"
    @@ "Comoros" :> "Africa"
    @@ "Uganda" :> "Africa"
    @@ "Senegal" :> "Africa"
    @@ "Gabon" :> "Africa"
    @@ "Niger" :> "Africa"
    @@ "Cambodia" :> "Asia"
    @@ "Tanzania" :> "Africa"
    @@ "Madagascar" :> "Africa"
    @@ "Central African Republic" :> "Africa"
    @@ "Chad" :> "Africa"
    @@ "Guinea" :> "Africa"
    @@ "Ivory Coast" :> "Africa"
    @@ "Burkina Faso" :> "Africa"
    @@ "Afghanistan" :> "Asia"
    @@ "Rwanda" :> "Africa"
    @@ "Benin" :> "Africa"
    @@ "Syria" :> "Asia"
    @@ "Burundi" :> "Africa"
    @@ "Togo" :> "Africa"
    @@ "Puerto Rico" :> "North America"
    @@ "Belize" :> "North America"
    @@ "Somalia" :> "Africa"
    @@ "Somaliland Region" :> "Africa"
    @@ "Namibia" :> "Africa"
    @@ "South Sudan" :> "Africa"
    @@ "Taiwan Province of China" :> "Asia"
    @@ "Hong Kong S.A.R., China" :> "Asia"
    @@ "Trinidad & Tobago" :> "North America"
    @@ "Northern Cyprus" :> "Europe"
    @@ "North Macedonia" :> "Europe"
    @@ "Gambia" :> "Africa"

ContinentLabels ==
    {"Africa", "Asia", "Europe", "North America", "Oceania", "South America"}

\* the cells that are keys of the table
CountryCells == {StrCell(c) : c \in DOMAIN country_to_continent}

\* Series.replace(dict) instead of Series.map(dict): an unknown value stays
ContinentOfReplace(cell) ==
    IF cell \in CountryCells
    THEN StrCell(country_to_continent[cell.s])
    ELSE cell

\* Series.map(dict) on one cell: a value that is no key, NaN included, gives NaN
ContinentOf(cell) ==
    IF cell \in CountryCells
    THEN StrCell(country_to_continent[cell.s])
    ELSE NaN

\* map_country_to_continent(df): df['Continent'] = df['Country'].map(table)
\* df['Country'] raises KeyError without such a column; with two of them it
\* is a DataFrame, whose map does not take a dict
map_country_to_continent(f) ==
    LET pos == Positions(f.cols, "Country")
    IN  IF pos = {} THEN [raised |-> "KeyError"]
        ELSE IF Cardinality(pos) > 1 THEN [raised |-> "TypeError"]
        ELSE LET p == CHOOSE q \in pos : TRUE
             IN  [df |-> SetColumn(f, "Continent",
                                   [r \in 1..Len(f.rows) |-> ContinentOf(f.rows[r][p])])]

(***************************************************************************)
(* Merger                                                                  *)
(***************************************************************************)
RECURSIVE IntersectAll(_)
IntersectAll(sets) ==
    IF Len(sets) = 1 THEN sets[1] ELSE sets[1] \cap IntersectAll(Tail(sets))

\* set.intersection(*[set(df.columns) for df in df_dict.values()])
CommonColumns(h, items) ==
    IntersectAll([k \in 1..Len(items) |-> ColumnSet(h[items[k].df])])

\* the labels of S in the order of their first occurrence in cols
RECURSIVE FirstOccurrences(_, _)
FirstOccurrences(cols, S) ==
    IF cols = <<>> THEN <<>>
    ELSE IF Head(cols) \in S
         THEN <<Head(cols)>> \o FirstOccurrences(Tail(cols), S \ {Head(cols)})
         ELSE FirstOccurrences(Tail(cols), S)

Rotate(s, r) == [k \in 1..Len(s) |-> s[((k - 1 + r) % Len(s)) + 1]]

Reverse(s) == [k \in 1..Len(s) |-> s[Len(s) + 1 - k]]

\* list(set): the labels in an order Python does not fix.  The orders drawn
\* are the rotations of a base order and of its reverse (all n! orders up to
\* n = 3), which puts every label at every place
ColumnOrders(S, cols) ==
    LET base == FirstOccurrences(cols, S)
    IN  IF S = {} THEN {<<>>}
        ELSE {Rotate(base, r) : r \in 0..(Len(base) - 1)}
             \cup {Rotate(Reverse(base), r) : r \in 0..(Len(base) - 1)}

\* the positions df[common_columns] selects: for each label of the list, in
\* list order, every column carrying it
RECURSIVE SelectedPositions(_, _)
SelectedPositions(cols, order) ==
    IF order = <<>> THEN <<>>
    ELSE SelectSeq([j \in 1..Len(cols) |-> j], LAMBDA j : cols[j] = Head(order))
         \o SelectedPositions(cols, Tail(order))

\* df[common_columns]
Restrict(f, order) ==
    LET ps == SelectedPositions(f.cols, order)
    IN  [cols |-> [k \in 1..Len(ps) |-> f.cols[ps[k]]],
         rows |-> [r \in 1..Len(f.rows) |-> [k \in 1..Len(ps) |-> f.rows[r][ps[k]]]]]

RECURSIVE ConcatRows(_)
ConcatRows(parts) ==
    IF parts = <<>> THEN <<>> ELSE Head(parts).rows \o ConcatRows(Tail(parts))

\* a concat that leaves out the rows of the last DataFrame
ConcatDropLast(parts) ==
    [df |-> [cols |-> parts[1].cols,
             rows |-> ConcatRows(SubSeq(parts, 1, Len(parts) - 1))]]

\* pd.concat(parts, ignore_index=True): DataFrames whose column indexes are
\* equal are stacked as they are; otherwise each is reindexed to the union of
\* the labels, which pandas refuses (InvalidIndexError) for a DataFrame with
\* a repeated label
Concat(parts) ==
    IF \A k \in 1..Len(parts) : parts[k].cols = parts[1].cols
    THEN [df |-> [cols |-> parts[1].cols, rows |-> ConcatRows(parts)]]
    ELSE [raised |-> "InvalidIndexError"]

\* concatenate_common_columns(df_dict), the list(set) order being `order`;
\* set.intersection() of no sets raises TypeError
concatenate_common_columns(h, ds, d, order) ==
    LET items == ds[d].items
    IN  IF items = <<>> THEN [raised |-> "TypeError"]
        ELSE Concat([k \in 1..Len(items) |-> Restrict(h[items[k].df], order)])

(***************************************************************************)
(* The datasets a caller starts from: what load_datasets returns for up to *)
(* MaxYears files, the first of up to MaxRows rows, each with one of these  *)
(* headers.                                                                *)
(***************************************************************************)
Headers ==
    { <<"Country", "Economy (GDP per Capita)", "Happiness Score">>,
      <<"Country", "GDP per capita", "Happiness.Score">>,
      <<"Score", "Country or region", "Happiness Score", "Notes">>,
      <<"Region", "Family">> }

YearKey(k) == IF k = 1 THEN 2015 ELSE IF k = 2 THEN 2017 ELSE 2010 + 2 * k

CountrySample ==
    <<StrCell("Australia"), NaN, StrCell("Narnia"), StrCell("Switzerland"), StrCell("Atlantis")>>

\* the cell of row r, column j of the k-th file
InputCell(k, r, label, j) ==
    IF label \in {"Country", "Country or region"}
    THEN CountrySample[((2 * k + r) % Len(CountrySample)) + 1]
    ELSE IntCell(100 * k + 10 * r + j)

InputFrame(k, header, n) ==
    [cols |-> header,
     rows |-> [r \in 1..n |-> [j \in 1..Len(header) |-> InputCell(k, r, header[j], j)]]]

IdleFrames ==
    /\ heap = <<>>
    /\ dicts = <<>>
    /\ outcome = Null

\* the k-th of the files has one row less than the one before it
RowCount(n, k) == IF n >= k THEN n - (k - 1) ELSE 0

InitFrames ==
    \E y \in 0..MaxYears, n \in 0..MaxRows :
      \E hs \in [1..y -> Headers] :
        /\ heap = [k \in 1..y |-> InputFrame(k, hs[k], RowCount(n, k))]
        /\ dicts = << [items |-> [k \in 1..y |-> [year |-> YearKey(k), df |-> k]],
                       src |-> 0] >>
        /\ outcome = Null

\* The caller holds one mapping, `df_dict`: the one it loaded and, after
\* df_dict = normalize_column_names(df_dict), the normalized one.
Held == Len(dicts)

HeldFrames == {dicts[Held].items[k].df : k \in 1..Len(dicts[Held].items)}

\* df_dict = normalize_column_names(df_dict), on the loaded mapping
CallNormalize ==
    /\ outcome = Null
    /\ dicts[Held].src = 0
    /\ LET r == normalize_column_names(heap, dicts, Held)
       IN  heap' = r.heap /\ dicts' = r.dicts
    /\ UNCHANGED <<outcome, loaderVars, dbVars>>

\* df_dict = add_year_column(df_dict)
CallAddYear ==
    /\ outcome = Null
    /\ heap' = add_year_column(heap, dicts, Held).heap
    /\ UNCHANGED <<dicts, outcome, loaderVars, dbVars>>

\* df_dict[year] = map_country_to_continent(df_dict[year]); a KeyError or
\* TypeError ends the run
CallMapCountry ==
    /\ outcome = Null
    /\ \E ref \in HeldFrames :
         LET r == map_country_to_continent(heap[ref])
         IN  IF "df" \in DOMAIN r
             THEN heap' = [heap EXCEPT ![ref] = r.df] /\ UNCHANGED outcome
             ELSE outcome' = r /\ UNCHANGED heap
    /\ UNCHANGED <<dicts, loaderVars, dbVars>>

\* concatenate_common_columns(df_dict): the run ends with the merged table
\* or with the exception
CallConcatenate ==
    /\ outcome = Null
    /\ \E order \in (IF dicts[Held].items = <<>> THEN {<<>>}
                     ELSE ColumnOrders(CommonColumns(heap, dicts[Held].items),
                                       heap[dicts[Held].items[1].df].cols)) :
         outcome' = [merged |-> Held]
                    @@ concatenate_common_columns(heap, dicts, Held, order)
    /\ UNCHANGED <<heap, dicts, loaderVars, dbVars>>

(***************************************************************************)
(* -------------------------  Persistence layer  ------------------------- *)
(* The server holds the configured database or not (dbExists); its tables  *)
(* are tables[name] = [cols, rows], cols a sequence of [name, nullable]    *)
(* and rows aligned with it.  engine is what the caller holds from         *)
(* get_engine() (Null: None) and passes as `connection`.  dbLast is the    *)
(* last call with its outcome: for insert_data the DataFrame written (Null *)
(* when nothing was) and in `after` the call before it, for query_table in *)
(* `prev` the last call that was not a query.                              *)
(***************************************************************************)
MaxDbRows == 2

\* class Model(BASE)
ModelTableName == "ml_model"

ModelColumnNames ==
    << "id",
       "Social_Support",
       "Year",
       "Trust",
       "Generosity",
       "Health",
       "Economy",
       "Freedom",
       "Continent_Africa",
       "Continent_Asia",
       "Continent_Europe",
       "Continent_North_America",
       "Continent_Oceania",
       "Continent_South_America",
       "Economy_Health",
       "Trust_Freedom",
       "Economy_Trust",
       "Trust_Health",
       "Happiness_Score",
       "Predicted_Happiness_Score" >>

\* every Column(...) of Model is nullable=False; id is the primary key
ModelNullable(name) == FALSE

ModelColumns ==
    [j \in 1..Len(ModelColumnNames) |->
        [name |-> ModelColumnNames[j], nullable |-> ModelNullable(ModelColumnNames[j])]]

TableNames == {ModelTableName, "happiness"}

Engine == [engine |-> TRUE]

NoTables == [n \in {} |-> Null]

DropTable(ts, name) == [n \in (DOMAIN ts) \ {name} |-> ts[n]]

PutTable(ts, name, t) == [n \in (DOMAIN ts) \cup {name} |-> IF n = name THEN t ELSE ts[n]]

(***************************************************************************)
(* get_engine().  `fault` is what the server and the driver do to this     *)
(* call: "none", or <<step, kind>>: the library call `step` raises an      *)
(* exception that is a SQLAlchemyError (kind "SQLAlchemyError": the server *)
(* is unreachable, the database may not be created, the URL is malformed)  *)
(* or is not (kind "Exception": the DBAPI driver cannot be imported).      *)
(***************************************************************************)
EngineSteps == {"database_exists", "create_database", "create_engine"}

ExceptionKinds == {"SQLAlchemyError", "Exception"}

Faults == {"none"} \cup (EngineSteps \X ExceptionKinds)

\* `except SQLAlchemyError as e`
CaughtBySQLAlchemyError(kind) == kind = "SQLAlchemyError"

\* the outcome of the try block once the library raised `kind`
EngineFailure(kind, exists) ==
    IF CaughtBySQLAlchemyError(kind)
    THEN [ret |-> Null, raised |-> "", logged |-> "error", dbExists |-> exists]
    ELSE [raised |-> kind, logged |-> "", dbExists |-> exists]

get_engine(exists, fault) ==
    IF fault # "none" /\ fault[1] = "database_exists"
    THEN EngineFailure(fault[2], exists)
    ELSE IF ~exists /\ fault # "none" /\ fault[1] = "create_database"
    THEN EngineFailure(fault[2], exists)
    ELSE IF fault # "none" /\ fault[1] = "create_engine"
    THEN EngineFailure(fault[2], TRUE)
    ELSE [ret |-> Engine, raised |-> "", logged |-> "info", dbExists |-> TRUE]

(***************************************************************************)
(* create_table(connection, db_model, table_name) with db_model = Model    *)
(***************************************************************************)
FreshModelTable == [cols |-> ModelColumns, rows |-> <<>>]

\* inspect(None) raises NoInspectionAvailable; dropping a table that is not
\* there and creating one that is raise ProgrammingError: each a
\* SQLAlchemyError, logged and not raised
create_table(conn, ts, table_name) ==
    IF conn = Null THEN [tables |-> ts, logged |-> "error"]
    ELSE IF table_name \in DOMAIN ts /\ ModelTableName \notin DOMAIN ts
    THEN [tables |-> ts, logged |-> "error"]
    ELSE LET dropped == IF table_name \in DOMAIN ts
                        THEN DropTable(ts, ModelTableName) ELSE ts
         IN  IF ModelTableName \in DOMAIN dropped
             THEN [tables |-> dropped, logged |-> "error"]
             ELSE [tables |-> PutTable(dropped, ModelTableName, FreshModelTable),
                   logged |-> "info"]

(***************************************************************************)
(* insert_data(df, table_name, connection)                                 *)
(***************************************************************************)
\* the table df.to_sql creates: one nullable column per label, no key
SqlTableOf(df) ==
    [cols |-> [j \in 1..Len(df.cols) |-> [name |-> df.cols[j], nullable |-> TRUE]],
     rows |-> df.rows]

\* if_exists='append' on a table that is there
insert_data_append(df, table_name, conn, ts) ==
    IF conn = Null THEN [tables |-> ts, logged |-> "error"]
    ELSE IF table_name \in DOMAIN ts
            /\ [j \in 1..Len(ts[table_name].cols) |-> ts[table_name].cols[j].name] = df.cols
    THEN [tables |-> PutTable(ts, table_name,
                              [cols |-> ts[table_name].cols,
                               rows |-> ts[table_name].rows \o df.rows]),
          logged |-> "info"]
    ELSE [tables |-> PutTable(ts, table_name, SqlTableOf(df)), logged |-> "info"]

\* df.to_sql(table_name, connection, if_exists='replace', index=False);
\* a None connection raises, and every exception is logged and not raised
insert_data(df, table_name, conn, ts) ==
    IF conn = Null THEN [tables |-> ts, logged |-> "error"]
    ELSE [tables |-> PutTable(ts, table_name, SqlTableOf(df)), logged |-> "info"]

(***************************************************************************)
(* query_table(db_model, connection, session) with db_model = Model        *)
(***************************************************************************)
ColumnNames(t) == [j \in 1..Len(t.cols) |-> t.cols[j].name]

PositionOf(names, name) == CHOOSE j \in 1..Len(names) : names[j] = name

\* SELECT <every column of Model> FROM ml_model
SelectModel(t) ==
    LET names == ColumnNames(t)
    IN  [cols |-> ModelColumnNames,
         rows |-> [r \in 1..Len(t.rows) |->
                     [j \in 1..Len(ModelColumnNames) |->
                        t.rows[r][PositionOf(names, ModelColumnNames[j])]]]]

\* pd.read_sql(session.query(Model).statement, connection): nothing is
\* caught, so a None connection, a missing table or a missing column raises
query_table(conn, ts) ==
    IF conn = Null THEN [raised |-> "Exception", logged |-> ""]
    ELSE IF ModelTableName \notin DOMAIN ts
    THEN [raised |-> "ProgrammingError", logged |-> ""]
    ELSE IF ~(Range(ModelColumnNames) \subseteq Range(ColumnNames(ts[ModelTableName])))
    THEN [raised |-> "ProgrammingError", logged |-> ""]
    ELSE [ret |-> SelectModel(ts[ModelTableName]), raised |-> "", logged |-> "info"]

(***************************************************************************)
(* The unified tables a caller writes: the Model's columns, those without  *)
(* id, those and one more, or the three columns of the two-year scenario;  *)
(* up to MaxDbRows rows, each complete or with one missing value.          *)
(***************************************************************************)
WithoutId == SubSeq(ModelColumnNames, 2, Len(ModelColumnNames))

UnifiedHeaders ==
    { ModelColumnNames,
      WithoutId,
      <<"Country">> \o ModelColumnNames,
      <<"Country", "Economy", "Happiness_Score">> }

\* a unified table of n rows; with `gap` its last row lacks its Economy
UnifiedTable(header, n, gap) ==
    [cols |-> header,
     rows |-> [r \in 1..n |->
                 [j \in 1..Len(header) |->
                    IF gap /\ r = n /\ header[j] = "Economy" THEN NaN
                    ELSE IntCell(10 * r + j)]]]

UnifiedTables ==
    {UnifiedTable(h, n, g) : h \in UnifiedHeaders, n \in 0..MaxDbRows, g \in BOOLEAN}

\* what a later call record keeps of the call before it
Brief(call) == [op |-> call.op, table_name |-> call.table_name, logged |-> call.logged]

NoCall == [op |-> "", table_name |-> "", raised |-> "", logged |-> ""]

InitDB ==
    /\ dbExists \in BOOLEAN
    /\ tables = NoTables
    /\ engine = Null
    /\ dbLast = NoCall

\* engine = get_engine(): after a raise the caller holds what it held before
GetEngine ==
    /\ \E fault \in Faults :
         LET r == get_engine(dbExists, fault)
         IN  /\ dbExists' = r.dbExists
             /\ engine' = IF r.raised = "" THEN r.ret ELSE engine
             /\ dbLast' = [op |-> "get_engine", table_name |-> "", fault |-> fault,
                           before |-> dbExists] @@ r
    /\ UNCHANGED <<tables, loaderVars, frameVars>>

CreateTable ==
    /\ \E table_name \in TableNames :
         LET r == create_table(engine, tables, table_name)
         IN  /\ tables' = r.tables
             /\ dbLast' = [op |-> "create_table", table_name |-> table_name,
                           raised |-> "", logged |-> r.logged]
    /\ UNCHANGED <<dbExists, engine, loaderVars, frameVars>>

InsertData ==
    /\ \E df \in UnifiedTables, table_name \in TableNames :
         LET r == insert_data(df, table_name, engine, tables)
         IN  /\ tables' = r.tables
             /\ dbLast' = [op |-> "insert_data", table_name |-> table_name,
                           raised |-> "", logged |-> r.logged,
                           df |-> IF r.logged = "info" THEN df ELSE Null,
                           after |-> Brief(dbLast)]
    /\ UNCHANGED <<dbExists, engine, loaderVars, frameVars>>

QueryTable ==
    /\ dbLast' = [op |-> "query_table", table_name |-> ModelTableName,
                  prev |-> IF dbLast.op = "query_table" THEN dbLast.prev ELSE dbLast]
                 @@ query_table(engine, tables)
    /\ UNCHANGED <<dbExists, tables, engine, loaderVars, frameVars>>

(***************************************************************************)
(* -------------------------  Specifications  ---------------------------- *)
(***************************************************************************)
IdleDB ==
    /\ dbExists = FALSE
    /\ tables = NoTables
    /\ engine = Null
    /\ dbLast = Null

NextLoader ==
    \/ LoadFile
    \/ SkipFile
    \/ LoadRaise
    \/ LoadReturn

NextFrames ==
    \/ CallNormalize
    \/ CallAddYear
    \/ CallMapCountry
    \/ CallConcatenate

LoaderInit == InitLoader /\ IdleFrames /\ IdleDB

SpecLoader == LoaderInit /\ [][NextLoader]_vars

FramesInit == InitFrames /\ IdleLoader /\ IdleDB

SpecFrames == FramesInit /\ [][NextFrames]_vars

Init == InitDB /\ IdleLoader /\ IdleFrames

Next ==
    \/ GetEngine
    \/ CreateTable
    \/ InsertData
    \/ QueryTable

Spec == Init /\ [][Next]_vars

(***************************************************************************)
(* ------------------------------  Claims  ------------------------------- *)
(***************************************************************************)

\* ---- Dataset Loader (SpecLoader) ----

CsvFiles == SelectSeq(directory, EndsWithCsv)

\* the year as the claim reads it: the last four characters before the extension
YearBeforeExtension(name) ==
    ParseInt(LastChars(SubSeq(name, 1, Len(name) - Len(CsvExt)), YearWidth))

\* the last file of the listing that the loader files under year y
LastFileOfYear(y) ==
    CsvFiles[CHOOSE i \in 1..Len(CsvFiles) :
                /\ YearOf(CsvFiles[i]) = y
                /\ \A j \in (i + 1)..Len(CsvFiles) : YearOf(CsvFiles[j]) # y]

\* C1 as stated: whenever every '.csv' name of the directory has four last
\* characters before its extension that parse as an integer, the mapping
\* load_datasets returns has exactly one entry per '.csv' file, keyed by the
\* parsed years, two files of the same year included.
C1_OneEntryPerFile ==
    (/\ loadpc = "done"
     /\ \A i \in 1..Len(CsvFiles) : YearBeforeExtension(CsvFiles[i]) # ValueError)
    => /\ Len(datasets) = Len(CsvFiles)
       /\ DictKeys(datasets) = {YearBeforeExtension(CsvFiles[i]) : i \in 1..Len(CsvFiles)}

\* C1 amended: load_datasets returns one entry per distinct year, the year
\* being parsed from the (up to) four last characters before the first dot of
\* each '.csv' name and the file listed last winning a shared year; so it
\* returns exactly N entries for N '.csv' files when, and only when, their
\* years are pairwise distinct.  It raises ValueError, and returns nothing,
\* exactly when some '.csv' name has no integer there.
C1_OneEntryPerDistinctYear ==
    /\ loadpc = "done" =>
         /\ \A i \in 1..Len(CsvFiles) : YearOf(CsvFiles[i]) # ValueError
         /\ DictKeys(datasets) = {YearOf(CsvFiles[i]) : i \in 1..Len(CsvFiles)}
         /\ Len(datasets) = Cardinality(DictKeys(datasets))
         /\ \A k \in 1..Len(datasets) :
              datasets[k].df = ReadCsv(LastFileOfYear(datasets[k].year))
         /\ (Len(datasets) = Len(CsvFiles)) <=>
              (\A i, j \in 1..Len(CsvFiles) :
                  YearOf(CsvFiles[i]) = YearOf(CsvFiles[j]) => i = j)
    /\ loadpc = "raised" =>
         \E i \in 1..Len(CsvFiles) : YearOf(CsvFiles[i]) = ValueError
    /\ loadpc = "loop" =>
         \A i \in 1..(Len(directory) - Len(pending)) :
            EndsWithCsv(directory[i]) => YearOf(directory[i]) # ValueError

\* three '.csv' files, two of them of one year, loaded into two entries
C1_Witness ==
    /\ loadpc = "done"
    /\ Len(CsvFiles) = 3
    /\ Len(datasets) = 2
    /\ \E i, j \in 1..Len(CsvFiles) : i # j /\ YearOf(CsvFiles[i]) = YearOf(CsvFiles[j])

\* ---- DataFrame helpers (SpecFrames) ----

FramesOf(d) == [k \in 1..Len(dicts[d].items) |-> heap[dicts[d].items[k].df]]

YearsOf(d) == [k \in 1..Len(dicts[d].items) |-> dicts[d].items[k].year]

SynonymKeys == DOMAIN column_mapping

RenamedKeys == {k \in SynonymKeys : column_mapping[k] # k}

Normalized == {d \in 1..Len(dicts) : dicts[d].src # 0}

\* C3 as stated: no dataset of a normalized mapping has a column named by a
\* key of the synonym table.
C3_NoKeyLeft ==
    \A d \in Normalized : \A k \in 1..Len(FramesOf(d)) :
        ColumnSet(FramesOf(d)[k]) \cap SynonymKeys = {}

\* what normalize_column_names is to return for dict d of the present state
NormalizeRenames(d) ==
    LET r     == normalize_column_names(heap, dicts, d)
        items == r.dicts[r.ret].items
    IN  /\ r.ret = Len(dicts) + 1
        /\ SubSeq(r.dicts, 1, Len(dicts)) = dicts
        /\ SubSeq(r.heap, 1, Len(heap)) = heap
        /\ [k \in 1..Len(items) |-> items[k].year] = YearsOf(d)
        /\ \A k \in 1..Len(items) :
             LET old == FramesOf(d)[k]
                 new == r.heap[items[k].df]
             IN  /\ items[k].df > Len(heap)
                 /\ new.rows = old.rows
                 /\ Len(new.cols) = Len(old.cols)
                 /\ \A j \in 1..Len(old.cols) :
                      new.cols[j] = IF old.cols[j] \in SynonymKeys
                                    THEN column_mapping[old.cols[j]]
                                    ELSE old.cols[j]
                 /\ ColumnSet(new) \cap RenamedKeys = {}

\* C3 amended: after normalize_column_names no dataset of the result has a
\* column named by a key of the synonym table whose canonical name differs
\* from it; every such column carries the canonical name instead, a key that
\* is its own canonical name (Country, Freedom, Generosity, Region) and a
\* name that is no key stay as they are, and rows and years are unchanged.
C3_NoRenamedKeyLeft ==
    /\ outcome = Null => \A d \in 1..Len(dicts) : NormalizeRenames(d)
    /\ \A d \in Normalized : \A k \in 1..Len(FramesOf(d)) :
          ColumnSet(FramesOf(d)[k]) \cap RenamedKeys = {}

\* a normalized mapping that kept Country and Notes and renamed Score
C3_Witness ==
    \E d \in Normalized : \E k \in 1..Len(FramesOf(d)) :
        /\ {"Score", "Country or region"} \subseteq ColumnSet(heap[dicts[dicts[d].src].items[k].df])
        /\ {"Country", "Notes", "Happiness_Score"} \subseteq ColumnSet(FramesOf(d)[k])

RECURSIVE SumRows(_)
SumRows(frames) == IF frames = <<>> THEN 0 ELSE Len(Head(frames).rows) + SumRows(Tail(frames))

InEveryFrame(frames) == {c \in ColumnSet(frames[1]) : \A k \in 1..Len(frames) : c \in ColumnSet(frames[k])}

Merged == "merged" \in DOMAIN outcome

NoRepeatedLabel(frames) == \A k \in 1..Len(frames) : IsInjective(frames[k].cols)

UnequalRepeats(frames) ==
    \E c \in InEveryFrame(frames) : \E k \in 1..Len(frames) :
        Cardinality(Positions(frames[k].cols, c)) # Cardinality(Positions(frames[1].cols, c))

\* the rows of the k-th dataset stand in `df` in their order, after those of
\* the datasets before it
RowsInOrder(df, frames) ==
    \A k \in 1..Len(frames) : \A r \in 1..Len(frames[k].rows) :
        LET row == df.rows[SumRows(SubSeq(frames, 1, k - 1)) + r]
        IN  \A p \in 1..Len(df.cols) :
                row[p] = frames[k].rows[r][PositionOf(frames[k].cols, df.cols[p])]

MergedAsIntended(df, frames) ==
    /\ ColumnSet(df) = InEveryFrame(frames)
    /\ IsInjective(df.cols)
    /\ Len(df.rows) = SumRows(frames)
    /\ RowsInOrder(df, frames)

\* C4 as stated: for every non-empty mapping concatenate_common_columns
\* returns a table whose columns are the columns common to all datasets and
\* whose row count is the sum of the row counts.
C4_AlwaysMerges ==
    (Merged /\ dicts[outcome.merged].items # <<>>)
    => /\ "df" \in DOMAIN outcome
       /\ ColumnSet(outcome.df) = InEveryFrame(FramesOf(outcome.merged))
       /\ Len(outcome.df.rows) = SumRows(FramesOf(outcome.merged))

\* C4 amended: for every non-empty mapping none of whose datasets repeats a
\* column label, concatenate_common_columns returns a table whose column set
\* is the intersection of the datasets' column sets and whose rows are the
\* datasets' rows, each dataset's in their order and the datasets in mapping
\* order; when a common label is repeated in one dataset and not as often in
\* another, pd.concat raises InvalidIndexError and no table is returned.
C4_MergesUniqueLabels ==
    (Merged /\ dicts[outcome.merged].items # <<>>)
    => LET frames == FramesOf(outcome.merged)
       IN  /\ NoRepeatedLabel(frames)
                => "df" \in DOMAIN outcome /\ MergedAsIntended(outcome.df, frames)
           /\ UnequalRepeats(frames)
                => "raised" \in DOMAIN outcome /\ outcome.raised = "InvalidIndexError"

\* two datasets with rows, one with a column the other lacks, were merged
C4_Witness ==
    /\ Merged
    /\ "df" \in DOMAIN outcome
    /\ LET frames == FramesOf(outcome.merged)
       IN  /\ Len(frames) = 2
           /\ ColumnSet(frames[1]) # ColumnSet(frames[2])
           /\ Len(frames[1].rows) = 2 /\ Len(frames[2].rows) = 1
           /\ Len(outcome.df.rows) = 3
           /\ Cardinality(ColumnSet(outcome.df)) >= 2

Labelled(f, r, name) == f.rows[r][PositionOf(f.cols, name)]

\* what map_country_to_continent is to do to DataFrame f
MapsCountries(f) ==
    LET r == map_country_to_continent(f)
    IN  /\ "df" \in DOMAIN r
        /\ Len(r.df.rows) = Len(f.rows)
        /\ r.df.cols = IF "Continent" \in ColumnSet(f) THEN f.cols
                       ELSE Append(f.cols, "Continent")
        /\ \A n \in 1..Len(f.rows) :
             /\ \A j \in 1..Len(f.cols) :
                  f.cols[j] # "Continent" => r.df.rows[n][j] = f.rows[n][j]
             /\ \A j \in 1..Len(r.df.cols) :
                  r.df.cols[j] = "Continent" =>
                     LET country == Labelled(f, n, "Country")
                         cont    == r.df.rows[n][j]
                     IN  /\ cont \in {StrCell(l) : l \in ContinentLabels} \cup {NaN}
                         /\ country = StrCell("Switzerland") => cont = StrCell("Europe")
                         /\ country = StrCell("Australia") => cont = StrCell("Oceania")
                         /\ country \in {StrCell("Atlantis"), StrCell("Narnia"), NaN}
                              => cont = NaN
                         /\ IF "s" \in DOMAIN country /\ country.s \in DOMAIN country_to_continent
                            THEN cont = StrCell(country_to_continent[country.s])
                            ELSE cont = NaN

\* C7: map_country_to_continent sets Continent, row by row, to the label the
\* country table gives the row's Country (Switzerland: Europe), always one of
\* the six continent labels, and to the missing value, without raising, for a
\* Country the table lacks; it changes no other column and no row count.
C7_ContinentFromTable ==
    /\ \A c \in DOMAIN country_to_continent : country_to_continent[c] \in ContinentLabels
    /\ country_to_continent["Switzerland"] = "Europe"
    /\ \A ref \in 1..Len(heap) :
         Cardinality(Positions(heap[ref].cols, "Country")) = 1 =>
            /\ outcome = Null => MapsCountries(heap[ref])
            /\ \A j \in Positions(heap[ref].cols, "Continent") :
                 \A n \in 1..Len(heap[ref].rows) :
                    heap[ref].rows[n][j] =
                       IF Labelled(heap[ref], n, "Country") = StrCell("Switzerland")
                       THEN StrCell("Europe")
                       ELSE IF Labelled(heap[ref], n, "Country") = StrCell("Australia")
                       THEN StrCell("Oceania")
                       ELSE NaN

\* a dataset got its Continent column: Europe for Switzerland, missing for Atlantis
C7_Witness ==
    \E ref \in 1..Len(heap) :
        /\ Cardinality(Positions(heap[ref].cols, "Country")) = 1
        /\ Cardinality(Positions(heap[ref].cols, "Continent")) = 1
        /\ \E n \in 1..Len(heap[ref].rows) :
             /\ Labelled(heap[ref], n, "Country") = StrCell("Switzerland")
             /\ Labelled(heap[ref], n, "Continent") = StrCell("Europe")
        /\ \E n \in 1..Len(heap[ref].rows) :
             /\ Labelled(heap[ref], n, "Country") = StrCell("Atlantis")
             /\ Labelled(heap[ref], n, "Continent") = NaN

Scenario2015 == {"Country", "Economy (GDP per Capita)", "Happiness Score"}
Scenario2017 == {"Country", "GDP per capita", "Happiness.Score"}
ScenarioCanonical == {"Country", "Economy", "Happiness_Score"}
Enrichments == {"Year", "Continent"}

\* dict d is the loaded mapping of the scenario, enriched or not
IsScenario(d) ==
    /\ dicts[d].src = 0
    /\ YearsOf(d) = <<2015, 2017>>
    /\ ColumnSet(FramesOf(d)[1]) \ Enrichments = Scenario2015
    /\ ColumnSet(FramesOf(d)[2]) \ Enrichments = Scenario2017

\* C8: with a 2015 dataset of columns {Country, Economy (GDP per Capita),
\* Happiness Score} and a 2017 dataset of columns {Country, GDP per capita,
\* Happiness.Score}, normalize_column_names gives both the columns {Country,
\* Economy, Happiness_Score}, and concatenate_common_columns then gives a table
\* with these three columns, plus the columns both datasets share besides, and
\* as many rows as the two datasets together.
C8_TwoYearScenario ==
    /\ \A d \in 1..Len(dicts) :
         (outcome = Null /\ IsScenario(d) /\ \A k \in 1..2 : ColumnSet(FramesOf(d)[k]) \cap Enrichments = {})
         => LET r == normalize_column_names(heap, dicts, d)
            IN  \A k \in 1..2 :
                   ColumnSet(r.heap[r.dicts[r.ret].items[k].df]) = ScenarioCanonical
    /\ \A d \in Normalized :
         IsScenario(dicts[d].src)
         => /\ \A k \in 1..2 : ColumnSet(FramesOf(d)[k]) \ Enrichments = ScenarioCanonical
            /\ (Merged /\ outcome.merged = d)
               => /\ "df" \in DOMAIN outcome
                  /\ ScenarioCanonical \subseteq ColumnSet(outcome.df)
                  /\ ColumnSet(outcome.df) =
                        ScenarioCanonical
                           \cup (ColumnSet(FramesOf(d)[1]) \cap ColumnSet(FramesOf(d)[2]))
                  /\ Len(outcome.df.rows) =
                        Len(FramesOf(d)[1].rows) + Len(FramesOf(d)[2].rows)

\* the scenario was normalized and merged into three columns and three rows
C8_Witness ==
    /\ Merged
    /\ outcome.merged \in Normalized
    /\ IsScenario(dicts[outcome.merged].src)
    /\ "df" \in DOMAIN outcome
    /\ ColumnSet(outcome.df) = ScenarioCanonical
    /\ Len(outcome.df.rows) = 3

\* every row of every dataset of dict d, in heap h, has Year = the key
YearIsKey(h, d) ==
    \A k \in 1..Len(dicts[d].items) :
        LET f == h[dicts[d].items[k].df]
        IN  /\ Cardinality(Positions(f.cols, "Year")) = 1
            /\ \A n \in 1..Len(f.rows) : Labelled(f, n, "Year") = IntCell(dicts[d].items[k].year)

\* heap h2 differs from h1 in the Year columns of the datasets of d, at most
OnlyYearChanged(h1, h2, d) ==
    /\ Len(h2) = Len(h1)
    /\ \A ref \in 1..Len(h1) :
         IF ref \in {dicts[d].items[k].df : k \in 1..Len(dicts[d].items)}
         THEN /\ h2[ref].cols = IF "Year" \in ColumnSet(h1[ref]) THEN h1[ref].cols
                                ELSE Append(h1[ref].cols, "Year")
              /\ Len(h2[ref].rows) = Len(h1[ref].rows)
              /\ \A n \in 1..Len(h1[ref].rows) : \A j \in 1..Len(h1[ref].cols) :
                    h1[ref].cols[j] # "Year" => h2[ref].rows[n][j] = h1[ref].rows[n][j]
         ELSE h2[ref] = h1[ref]

\* C9: add_year_column returns the mapping it was given, its datasets changed
\* in place so that every row has Year = the dataset's key, and applying it
\* again to the result changes nothing: same Year values, same columns, same
\* mapping.
C9_AddYearIdempotent ==
    outcome = Null => \A d \in 1..Len(dicts) :
        LET once  == add_year_column(heap, dicts, d)
            twice == add_year_column(once.heap, dicts, d)
        IN  /\ once.ret = d
            /\ twice.ret = d
            /\ YearIsKey(once.heap, d)
            /\ OnlyYearChanged(heap, once.heap, d)
            /\ twice.heap = once.heap
            /\ YearIsKey(heap, d) => once.heap = heap

\* add_year_column has acted on a mapping of two datasets with rows
C9_Witness ==
    \E d \in 1..Len(dicts) :
        /\ Len(dicts[d].items) = 2
        /\ YearIsKey(heap, d)
        /\ \A k \in 1..2 : Len(FramesOf(d)[k].rows) >= 1

\* ---- Persistence layer (Spec) ----

WroteThenQueried ==
    /\ dbLast.op = "query_table"
    /\ dbLast.prev.op = "insert_data"
    /\ dbLast.prev.logged = "info"
    /\ dbLast.prev.table_name = ModelTableName

C5_EngineErrorsNeverEscape ==
    dbLast.op = "get_engine"
    => /\ dbLast.raised = ""
       /\ dbLast.logged \in {"info", "error"}
       /\ dbLast.logged = "error" => dbLast.ret = Null
       /\ dbLast.ret = Engine => dbExists

\* C6: the tables of the database hold no row with a missing value in a
\* column the Model declares nullable=False.
C6_NoMissingValueStored ==
    \A name \in DOMAIN tables :
        \A n \in 1..Len(tables[name].rows) : \A j \in 1..Len(tables[name].cols) :
            (\E i \in 1..Len(ModelColumns) :
                /\ ModelColumns[i].name = tables[name].cols[j].name
                /\ ~ModelColumns[i].nullable)
            => tables[name].rows[n][j] # NaN

\* C10: after create_table(connection, Model, table_name) on an engine, a table
\* named table_name exists, as the Model defines it and without rows, whatever
\* was there before and whatever table_name is; and nothing is raised.
C10_TableRecreatedByName ==
    (dbLast.op = "create_table" /\ engine # Null)
    => /\ dbLast.raised = ""
       /\ dbLast.table_name \in DOMAIN tables
       /\ tables[dbLast.table_name] = FreshModelTable

====
